---- MODULE Spec2Model ----
(***************************************************************************)
(* ZUGFeRD XML extractor: the sniff predicate, attachment discovery,       *)
(* output path derivation, the strategy chain of ExtractXML and the batch  *)
(* worker pool, modelled from internal/extractor and the batch processor.  *)
(* Byte blobs, attachment names and paths are TLA+ strings; the Go string  *)
(* functions the code calls are computed character by character.           *)
(***************************************************************************)
EXTENDS Integers, Sequences, FiniteSets, TLC

VARIABLES
    data,         \* sniff: the byte blob under classification
    verdict,      \* sniff: result of the last classification of data
    prior,        \* sniff: the blob data was grown from, its verdict and the offset of the insertion
    attachments,  \* discovery: the attachment set, attachment name -> bytes
    found,        \* discovery: the results of the findZUGFeRDXML calls made on attachments
    z,            \* output path: the extractor's InputPath and OutputPath
    xmlFilename,  \* output path: the discovered attachment name
    outputPath,   \* output path: what generateOutputPath returned, once called
    container,    \* extraction: what the input file holds, as each strategy sees it
    pc,           \* extraction: the statement of ExtractXML that runs next
    tried,        \* extraction: the strategies attempted so far, with their results
    failedStage,  \* extraction: the stage whose error ExtractXML returned, "" if none
    fs,           \* extraction and batch: the output files, path -> bytes
    scratch,      \* extraction: the scratch directories that exist, directory -> its files
    temps,        \* extraction: the scratch directories os.MkdirTemp has made, in order
    scan,         \* byte scan: the data, and the start position and result of extractXMLFromPosition
    bp,           \* batch: the BatchProcessor's Workers and OutputDir, and what Glob returns for InputPattern
    cli,          \* batch: whether main made the BatchProcessor, and runtime.NumCPU() if it did
    cpc,          \* batch: the statement of ProcessBatch that runs next
    spawned,      \* batch: the workers started so far (i of the start loop)
    sent,         \* batch: the files sent so far (index of the send loop)
    jobs,         \* batch: the jobs channel, its buffer and whether it is closed
    results,      \* batch: the results channel, its buffer and whether it is closed
    wg,           \* batch: the WaitGroup counter
    wk,           \* batch: each worker goroutine: its position, its filename, its result
    closer,       \* batch: the goroutine that waits for the workers and closes results
    tally,        \* batch: successful and failed of the result loop
    batchErr,     \* batch: what ProcessBatch returned, "" for nil
    hist          \* batch: per file, the workers that received it and the results made of it

sniffVars == <<data, verdict, prior>>
discoveryVars == <<attachments, found>>
pathVars == <<z, xmlFilename, outputPath>>
extractVars == <<container, pc, tried, failedStage, fs, scratch, temps>>
scanVars == <<scan>>
batchVars == <<bp, cli, cpc, spawned, sent, jobs, results, wg, wk, closer, tally, batchErr, hist>>
vars == <<data, verdict, prior, attachments, found, z, xmlFilename, outputPath,
          container, pc, tried, failedStage, fs, scratch, temps, scan,
          bp, cli, cpc, spawned, sent, jobs, results, wg, wk, closer, tally, batchErr, hist>>

\* the variables each specification leaves alone
notSniff == <<discoveryVars, pathVars, extractVars, scanVars, batchVars>>
notDiscovery == <<sniffVars, pathVars, extractVars, scanVars, batchVars>>
notPath == <<sniffVars, discoveryVars, extractVars, scanVars, batchVars>>
notExtract == <<sniffVars, scanVars, batchVars>>
notScan == <<sniffVars, discoveryVars, pathVars, extractVars, batchVars>>
notBatch == <<sniffVars, discoveryVars, pathVars, container, pc, tried, failedStage, scratch, temps,
              scanVars>>

\* the verdict before a blob has been classified
NoVerdict == [classified |-> FALSE, extractor |-> FALSE, validator |-> FALSE]
\* the record of a blob that was not grown from another
NoPrior == [grown |-> FALSE, extractor |-> FALSE, from |-> "", at |-> 0]

(***************************************************************************)
(* Go strings package                                                      *)
(***************************************************************************)
Char(s, i) == SubSeq(s, i, i)

lowerAlphabet == "abcdefghijklmnopqrstuvwxyz"
upperAlphabet == "ABCDEFGHIJKLMNOPQRSTUVWXYZ"

\* the lower-case letter of each upper-case letter
lowerOf ==
    [c \in {Char(upperAlphabet, i) : i \in 1..Len(upperAlphabet)} |->
        Char(lowerAlphabet, CHOOSE i \in 1..Len(upperAlphabet) : Char(upperAlphabet, i) = c)]

\* unicode.ToLower on one ASCII character: 'A'..'Z' shift to 'a'..'z'
LowerChar(c) == IF c \in DOMAIN lowerOf THEN lowerOf[c] ELSE c

RECURSIVE ToLower(_)
ToLower(s) ==
    IF s = "" THEN ""
    ELSE LowerChar(Char(s, 1)) \o ToLower(SubSeq(s, 2, Len(s)))

HasPrefix(s, p) == Len(s) >= Len(p) /\ SubSeq(s, 1, Len(p)) = p
HasSuffix(s, p) == Len(s) >= Len(p) /\ SubSeq(s, Len(s) - Len(p) + 1, Len(s)) = p

\* strings.Contains: some offset at which sub occurs in s
Contains(s, sub) ==
    \E i \in 1..(Len(s) - Len(sub) + 1) : SubSeq(s, i, i + Len(sub) - 1) = sub

TrimSuffix(s, p) == IF HasSuffix(s, p) THEN SubSeq(s, 1, Len(s) - Len(p)) ELSE s

\* strings.Index: the offset (0-based) of the first occurrence of sub in s, or -1
Index(s, sub) ==
    LET hits == {i \in 0..(Len(s) - Len(sub)) : SubSeq(s, i + 1, i + Len(sub)) = sub}
    IN  IF hits = {} THEN -1 ELSE CHOOSE i \in hits : \A j \in hits : i <= j

(***************************************************************************)
(* Go path/filepath package, with '/' as the separator                     *)
(***************************************************************************)
\* the offsets (0-based) of the separators of path
SeparatorsOf(path) == {i \in 0..(Len(path) - 1) : Char(path, i + 1) = "/"}

Max(S) == CHOOSE x \in S : \A y \in S : y <= x

\* Clean's step back over the last element written to out: the write index
\* drops to the separator before it, or to dotdot
RECURSIVE Backtrack(_, _, _)
Backtrack(out, w, dotdot) ==
    IF w > dotdot /\ Char(out, w + 1) # "/" THEN Backtrack(out, w - 1, dotdot) ELSE w

\* the loop of filepath.Clean: r is the read index into path, out the buffer
\* written so far, dotdot the index where .. must stop
RECURSIVE CleanLoop(_, _, _, _, _)
CleanLoop(path, rooted, r, out, dotdot) ==
    LET n == Len(path)
        at(i) == Char(path, i + 1)
    IN  IF r >= n THEN out
        ELSE IF at(r) = "/" THEN CleanLoop(path, rooted, r + 1, out, dotdot)
        ELSE IF at(r) = "." /\ (r + 1 = n \/ at(r + 1) = "/")
             THEN CleanLoop(path, rooted, r + 1, out, dotdot)
        ELSE IF at(r) = "." /\ at(r + 1) = "." /\ (r + 2 = n \/ at(r + 2) = "/")
             THEN IF Len(out) > dotdot
                  THEN CleanLoop(path, rooted, r + 2,
                                 SubSeq(out, 1, Backtrack(out, Len(out) - 1, dotdot)), dotdot)
                  ELSE IF ~rooted
                  THEN LET o == (IF Len(out) > 0 THEN out \o "/" ELSE out) \o ".."
                       IN  CleanLoop(path, rooted, r + 2, o, Len(o))
                  ELSE CleanLoop(path, rooted, r + 2, out, dotdot)
        ELSE LET o == IF (rooted /\ Len(out) # 1) \/ (~rooted /\ Len(out) # 0)
                      THEN out \o "/" ELSE out
                 rest == {i \in SeparatorsOf(path) : i > r}
                 stop == IF rest = {} THEN n ELSE CHOOSE i \in rest : \A j \in rest : i <= j
             IN  CleanLoop(path, rooted, stop, o \o SubSeq(path, r + 1, stop), dotdot)

\* filepath.Clean
Clean(path) ==
    IF path = "" THEN "."
    ELSE LET rooted == Char(path, 1) = "/"
             out == IF rooted THEN CleanLoop(path, rooted, 1, "/", 1)
                              ELSE CleanLoop(path, rooted, 0, "", 0)
         IN  IF out = "" THEN "." ELSE out

\* path without its trailing separators
RECURSIVE StripTrailingSeparators(_)
StripTrailingSeparators(path) ==
    IF Len(path) > 0 /\ Char(path, Len(path)) = "/"
    THEN StripTrailingSeparators(SubSeq(path, 1, Len(path) - 1))
    ELSE path

\* filepath.Base
Base(path) ==
    IF path = "" THEN "."
    ELSE LET p == StripTrailingSeparators(path)
             seps == SeparatorsOf(p)
             last == IF seps = {} THEN p ELSE SubSeq(p, Max(seps) + 2, Len(p))
         IN  IF last = "" THEN "/" ELSE last

\* filepath.Ext: from the last dot of the last element, "" if it has none
Ext(path) ==
    LET seps == SeparatorsOf(path)
        from == IF seps = {} THEN 0 ELSE Max(seps) + 1
        dots == {i \in from..(Len(path) - 1) : Char(path, i + 1) = "."}
    IN  IF dots = {} THEN "" ELSE SubSeq(path, Max(dots) + 1, Len(path))

\* filepath.Dir: all but the last element, cleaned
Dir(path) ==
    LET seps == SeparatorsOf(path)
        i == IF seps = {} THEN -1 ELSE Max(seps)
    IN  Clean(SubSeq(path, 1, i + 1))

\* filepath.Join of two elements: empty elements are dropped, the rest cleaned
Join(a, b) ==
    IF a # "" THEN Clean(a \o "/" \o b)
    ELSE IF b # "" THEN Clean(b)
    ELSE ""

(***************************************************************************)
(* Classifier                                                              *)
(***************************************************************************)
indicators ==
    << "crossindustrydocument", "crossindustryinvoice", "urn:ferd:",
       "urn:cen.eu:en16931", "zugferd", "factur-x", "xrechnung",
       "rsm:crossindustrydocument", "crossindustryinvoice" >>

\* strings.ToLower(indicator), for each indicator
lowerIndicators == [i \in 1..Len(indicators) |-> ToLower(indicators[i])]

\* a sniff that compares the content as it is, without lower-casing it
isZUGFeRDXML_CaseSensitive(bytes) ==
    /\ Len(bytes) # 0
    /\ Cardinality({i \in 1..Len(indicators) : Contains(bytes, indicators[i])}) > 0

\* ZUGFeRDExtractor.isZUGFeRDXML: counts the indicators found in the
\* lower-cased content and requires at least one
isZUGFeRDXML(bytes) ==
    IF Len(bytes) = 0 THEN FALSE
    ELSE LET contentLower == ToLower(bytes)
             foundIndicators ==
                 Cardinality({i \in 1..Len(indicators) :
                                 Contains(contentLower, lowerIndicators[i])})
         IN  foundIndicators > 0

\* validation.Validator.IsZUGFeRDXML: returns at the first indicator found
IsZUGFeRDXML(bytes) ==
    IF Len(bytes) = 0 THEN FALSE
    ELSE LET contentLower == ToLower(bytes)
         IN  \E i \in 1..Len(indicators) :
                 Contains(contentLower, lowerIndicators[i])

(***************************************************************************)
(* Sniff specification: a blob is classified, grown by appended or         *)
(* inserted text, and classified again.                                    *)
(***************************************************************************)
MaxLen == 11

SeedBlobs == {"", "ZUG", "urn:", "zugferd", "Factur-X"}
Texts == {"x", "FeRD", "ferd:"}

SniffIdle ==
    /\ data = ""
    /\ verdict = NoVerdict
    /\ prior = NoPrior

DiscoveryIdle ==
    /\ attachments = <<>>
    /\ found = <<>>

\* generateOutputPath has not returned yet
NotGenerated == [called |-> FALSE, path |-> ""]

PathIdle ==
    /\ z = [InputPath |-> "", OutputPath |-> ""]
    /\ xmlFilename = ""
    /\ outputPath = NotGenerated

\* what api.ExtractAttachmentsFile does with a container: it fails, or it
\* writes the embedded files into the target directory
ParseFailed == [ok |-> FALSE, files |-> <<>>]
ParseOk(files) == [ok |-> TRUE, files |-> files]

NoContainer == [strict |-> ParseFailed, permissive |-> ParseFailed, raw |-> ""]

ExtractIdle ==
    /\ container = NoContainer
    /\ pc = "idle"
    /\ tried = <<>>
    /\ failedStage = ""
    /\ fs = <<>>
    /\ scratch = <<>>
    /\ temps = <<>>

\* extractXMLFromPosition has not been called
NotScanned(bytes) == [data |-> bytes, called |-> FALSE, startPos |-> 0, out |-> ""]

ScanIdle == scan = NotScanned("")

\* an open channel with nothing in its buffer
EmptyChan == [buf |-> <<>>, closed |-> FALSE]

\* the BatchProcessor was not made by main
NoCLI == [used |-> FALSE, numCPU |-> 0]

BatchIdle ==
    /\ bp = [Workers |-> 0, OutputDir |-> "", glob |-> [err |-> FALSE, files |-> <<>>]]
    /\ cli = NoCLI
    /\ cpc = "idle"
    /\ spawned = 0
    /\ sent = 0
    /\ jobs = EmptyChan
    /\ results = EmptyChan
    /\ wg = 0
    /\ wk = <<>>
    /\ closer = "none"
    /\ tally = [successful |-> 0, failed |-> 0]
    /\ batchErr = ""
    /\ hist = <<>>

SniffInit ==
    /\ data \in SeedBlobs
    /\ verdict = NoVerdict
    /\ prior = NoPrior
    /\ DiscoveryIdle
    /\ PathIdle
    /\ ExtractIdle
    /\ ScanIdle
    /\ BatchIdle

\* both classifiers run on the current blob
Classify ==
    /\ ~verdict.classified
    /\ verdict' = [classified |-> TRUE,
                   extractor |-> isZUGFeRDXML(data),
                   validator |-> IsZUGFeRDXML(data)]
    /\ UNCHANGED <<data, prior>>
    /\ UNCHANGED notSniff

\* text is inserted at offset at (at = Len(data) appends it)
InsertText ==
    /\ verdict.classified
    /\ \E t \in Texts, at \in 0..Len(data) :
          /\ Len(data) + Len(t) <= MaxLen
          /\ data' = SubSeq(data, 1, at) \o t \o SubSeq(data, at + 1, Len(data))
          /\ prior' = [grown |-> TRUE, extractor |-> verdict.extractor, from |-> data, at |-> at]
    /\ verdict' = NoVerdict
    /\ UNCHANGED notSniff

SniffNext == Classify \/ InsertText

SpecSniff == SniffInit /\ [][SniffNext]_vars

\* c and the upper-case letter of c, for a lower-case letter c
CaseVariants(c) ==
    {c} \cup {Char(upperAlphabet, i) : i \in {j \in 1..Len(lowerAlphabet) : Char(lowerAlphabet, j) = c}}

\* ind occurs in s at some offset, each character in either letter case
OccursAnyCase(s, ind) ==
    \E i \in 1..(Len(s) - Len(ind) + 1) :
        \A j \in 1..Len(ind) : Char(s, i + j - 1) \in CaseVariants(Char(ind, j))

HasIndicator(s) == \E i \in 1..Len(indicators) : OccursAnyCase(s, indicators[i])

LeavesIndicatorWhole ==
    \/ HasIndicator(SubSeq(prior.from, 1, prior.at))
    \/ HasIndicator(SubSeq(prior.from, prior.at + 1, Len(prior.from)))

KnownXMLFilenames ==
    << "ZUGFeRD-invoice.xml", "zugferd-invoice.xml", "factur-x.xml",
       "xrechnung.xml", "cii.xml" >>

KnownNames == {KnownXMLFilenames[i] : i \in 1..Len(KnownXMLFilenames)}

\* the result of findZUGFeRDXML: (data, filename, nil) or (nil, "", error)
Candidate(name, bytes) == [err |-> FALSE, name |-> name, data |-> bytes]
NoInvoiceCandidate == [err |-> TRUE, name |-> "", data |-> ""]

\* the orders in which a range over the map can visit its keys
IterationOrders(att) ==
    LET n == Cardinality(DOMAIN att)
    IN  {o \in [1..n -> DOMAIN att] : \A i, j \in 1..n : o[i] = o[j] => i = j}

\* a discovery that walks the known filenames from the last to the first
findZUGFeRDXML_ReverseKnown(att, order) ==
    LET knownHits == {i \in 1..Len(KnownXMLFilenames) :
                         /\ KnownXMLFilenames[i] \in DOMAIN att
                         /\ isZUGFeRDXML(att[KnownXMLFilenames[i]])}
        xmlHits == {j \in 1..Len(order) :
                       /\ HasSuffix(ToLower(order[j]), ".xml")
                       /\ isZUGFeRDXML(att[order[j]])}
    IN  IF knownHits # {}
        THEN LET i == CHOOSE k \in knownHits : \A m \in knownHits : m <= k
             IN  Candidate(KnownXMLFilenames[i], att[KnownXMLFilenames[i]])
        ELSE IF xmlHits # {}
        THEN LET j == CHOOSE k \in xmlHits : \A m \in xmlHits : k <= m
             IN  Candidate(order[j], att[order[j]])
        ELSE NoInvoiceCandidate

\* a discovery that gives up at a known filename whose content fails the sniff
findZUGFeRDXML_KnownBlocks(att, order) ==
    LET knownPresent == {i \in 1..Len(KnownXMLFilenames) : KnownXMLFilenames[i] \in DOMAIN att}
        xmlHits == {j \in 1..Len(order) :
                       /\ HasSuffix(ToLower(order[j]), ".xml")
                       /\ isZUGFeRDXML(att[order[j]])}
    IN  IF knownPresent # {}
        THEN LET i == CHOOSE k \in knownPresent : \A m \in knownPresent : k <= m
             IN  IF isZUGFeRDXML(att[KnownXMLFilenames[i]])
                 THEN Candidate(KnownXMLFilenames[i], att[KnownXMLFilenames[i]])
                 ELSE NoInvoiceCandidate
        ELSE IF xmlHits # {}
        THEN LET j == CHOOSE k \in xmlHits : \A m \in xmlHits : k <= m
             IN  Candidate(order[j], att[order[j]])
        ELSE NoInvoiceCandidate

\* ZUGFeRDExtractor.findZUGFeRDXML, the map being ranged over in the given order:
\* the first known filename present whose content passes the sniff, else the
\* first attachment of the range whose name ends in .xml and whose content
\* passes, else the error
findZUGFeRDXML(att, order) ==
    LET knownHits == {i \in 1..Len(KnownXMLFilenames) :
                         /\ KnownXMLFilenames[i] \in DOMAIN att
                         /\ isZUGFeRDXML(att[KnownXMLFilenames[i]])}
        xmlHits == {j \in 1..Len(order) :
                       /\ HasSuffix(ToLower(order[j]), ".xml")
                       /\ isZUGFeRDXML(att[order[j]])}
    IN  IF knownHits # {}
        THEN LET i == CHOOSE k \in knownHits : \A m \in knownHits : k <= m
             IN  Candidate(KnownXMLFilenames[i], att[KnownXMLFilenames[i]])
        ELSE IF xmlHits # {}
        THEN LET j == CHOOSE k \in xmlHits : \A m \in xmlHits : k <= m
             IN  Candidate(order[j], att[order[j]])
        ELSE NoInvoiceCandidate

(***************************************************************************)
(* Discovery specification: findZUGFeRDXML is called repeatedly on one     *)
(* attachment set.                                                         *)
(***************************************************************************)
MaxAttachments == 3
MaxCalls == 2

AttachmentNames ==
    {"ZUGFeRD-invoice.xml", "zugferd-invoice.xml", "factur-x.xml", "cii.xml",
     "report.xml", "SCAN.XML", "notes.txt"}
AttachmentBytes == {"", "<a/>", "ZUGFeRD", "urn:cen.eu:EN16931"}

AttachmentSets ==
    UNION {[names -> AttachmentBytes] :
              names \in {n \in SUBSET AttachmentNames : Cardinality(n) <= MaxAttachments}}

DiscoveryInit ==
    /\ attachments \in AttachmentSets
    /\ found = <<>>
    /\ SniffIdle
    /\ PathIdle
    /\ ExtractIdle
    /\ ScanIdle
    /\ BatchIdle

\* one call of findZUGFeRDXML; the range over the map visits the keys in an
\* order the runtime picks anew for each range statement
FindZUGFeRDXML ==
    /\ Len(found) < MaxCalls
    /\ \E order \in IterationOrders(attachments) :
          found' = Append(found, findZUGFeRDXML(attachments, order))
    /\ UNCHANGED attachments
    /\ UNCHANGED notDiscovery

DiscoveryNext == FindZUGFeRDXML

SpecDiscovery == DiscoveryInit /\ [][DiscoveryNext]_vars

\* the attachment stored under name n passes the sniff predicate
Passes(n) == n \in DOMAIN attachments /\ isZUGFeRDXML(attachments[n])

\* the known filenames, in priority order, that are present and pass
PassingKnown == {i \in 1..Len(KnownXMLFilenames) : Passes(KnownXMLFilenames[i])}

\* n ends in .xml, each of the last four characters in either letter case
EndsInXmlAnyCase(n) ==
    Len(n) >= 4 /\ OccursAnyCase(SubSeq(n, Len(n) - 3, Len(n)), ".xml")

\* C2: when some attachment stored under a known filename passes the sniff
\* predicate, every findZUGFeRDXML call returns the passing known-named
\* attachment that is first in the KnownXMLFilenames order, whatever else the
\* set holds.
C2_FirstKnownNameWins ==
    PassingKnown # {} =>
        \A k \in 1..Len(found) :
            \E i \in PassingKnown :
                /\ \A m \in PassingKnown : i <= m
                /\ found[k] = Candidate(KnownXMLFilenames[i], attachments[KnownXMLFilenames[i]])

\* zugferd-invoice.xml and cii.xml both pass, next to a passing report.xml
C2_Witness ==
    /\ Passes("zugferd-invoice.xml")
    /\ Passes("cii.xml")
    /\ Passes("report.xml")
    /\ attachments["cii.xml"] # attachments["zugferd-invoice.xml"]
    /\ Len(found) > 0
    /\ found[1].name = "zugferd-invoice.xml"

\* C3: any two findZUGFeRDXML calls on the same attachment set return the same
\* candidate, or both fail.
C3_DiscoveryDeterministic ==
    \A k, m \in 1..Len(found) : found[k] = found[m]

\* C4: findZUGFeRDXML fails exactly when no attachment that has a known name or
\* a name ending in .xml (in any letter case) passes the sniff predicate; a
\* returned candidate is an attachment of the set and its bytes pass the sniff.
C4_FailsIffNoPassingXml ==
    \A k \in 1..Len(found) :
        /\ found[k].err <=>
              ~\E n \in DOMAIN attachments :
                  /\ n \in KnownNames \/ EndsInXmlAnyCase(n)
                  /\ isZUGFeRDXML(attachments[n])
        /\ ~found[k].err =>
              /\ found[k].name \in DOMAIN attachments
              /\ found[k].data = attachments[found[k].name]
              /\ isZUGFeRDXML(found[k].data)

\* a known-named attachment fails the sniff and SCAN.XML is returned
C4_Witness ==
    /\ "SCAN.XML" \in DOMAIN attachments
    /\ "ZUGFeRD-invoice.xml" \in DOMAIN attachments
    /\ ~Passes("ZUGFeRD-invoice.xml")
    /\ Len(found) > 0
    /\ found[1] = Candidate("SCAN.XML", attachments["SCAN.XML"])

(***************************************************************************)
(* Output path derivation                                                  *)
(***************************************************************************)
\* a check of the filename against the known names that ignores letter case
isStandardXMLFilename_FoldCase(filename) ==
    \E i \in 1..Len(KnownXMLFilenames) : ToLower(filename) = ToLower(KnownXMLFilenames[i])

\* ZUGFeRDExtractor.isStandardXMLFilename
isStandardXMLFilename(filename) ==
    \E i \in 1..Len(KnownXMLFilenames) : filename = KnownXMLFilenames[i]

\* ZUGFeRDExtractor.generateOutputPath
generateOutputPath(e, filename) ==
    IF e.OutputPath # "" THEN e.OutputPath
    ELSE LET dir == Dir(e.InputPath)
             baseName == TrimSuffix(Base(e.InputPath), Ext(e.InputPath))
             outputFilename == IF isStandardXMLFilename(filename)
                               THEN filename
                               ELSE baseName \o ".xml"
         IN  Join(dir, outputFilename)

InputPaths ==
    {"dir/invoice.pdf", "invoice.pdf", "/srv/in/RE-2024.PDF", "a/b/../scan.v2.pdf",
     "./x//rechnung.pdf", "in/noext", "dir/.pdf"}
OutputPaths == {"", "out.xml", "o/../x//y.xml"}
DiscoveredNames ==
    KnownNames \cup {"weird123.xml", "ZUGFERD-INVOICE.XML", "sub/cii.xml", "invoice.xml"}

PathInit ==
    /\ z \in [InputPath : InputPaths, OutputPath : OutputPaths]
    /\ xmlFilename \in DiscoveredNames
    /\ outputPath = NotGenerated
    /\ SniffIdle
    /\ DiscoveryIdle
    /\ ExtractIdle
    /\ ScanIdle
    /\ BatchIdle

GenerateOutputPath ==
    /\ ~outputPath.called
    /\ outputPath' = [called |-> TRUE, path |-> generateOutputPath(z, xmlFilename)]
    /\ UNCHANGED <<z, xmlFilename>>
    /\ UNCHANGED notPath

PathNext == GenerateOutputPath

SpecPath == PathInit /\ [][PathNext]_vars

\* the last element of a file path: what follows its last separator
LastElement(path) ==
    LET seps == SeparatorsOf(path)
    IN  IF seps = {} THEN path ELSE SubSeq(path, Max(seps) + 2, Len(path))

\* the stem of a file path: its last element up to the last dot of that element
Stem(path) ==
    LET last == LastElement(path)
        dots == {i \in 1..Len(last) : Char(last, i) = "."}
    IN  IF dots = {} THEN last ELSE SubSeq(last, 1, Max(dots) - 1)

\* C6: generateOutputPath returns the configured OutputPath verbatim when it is
\* not empty; otherwise a path in the directory of the input whose last element
\* is the discovered attachment name if that name is exactly one of
\* KnownXMLFilenames, and the stem of the input plus ".xml" for any other name.
C6_OutputPathRule ==
    outputPath.called =>
        IF z.OutputPath # "" THEN outputPath.path = z.OutputPath
        ELSE /\ Dir(outputPath.path) = Dir(z.InputPath)
             /\ LastElement(outputPath.path) =
                    IF xmlFilename \in KnownNames THEN xmlFilename
                    ELSE Stem(z.InputPath) \o ".xml"
             /\ (z.InputPath = "dir/invoice.pdf" /\ xmlFilename = "zugferd-invoice.xml")
                    => outputPath.path = "dir/zugferd-invoice.xml"
             /\ (z.InputPath = "dir/invoice.pdf" /\ xmlFilename = "weird123.xml")
                    => outputPath.path = "dir/invoice.xml"

\* dir/invoice.pdf with the discovered name weird123.xml gave dir/invoice.xml
C6_Witness ==
    /\ outputPath.called
    /\ z = [InputPath |-> "dir/invoice.pdf", OutputPath |-> ""]
    /\ xmlFilename = "weird123.xml"
    /\ outputPath.path = "dir/invoice.xml"

(***************************************************************************)
(* Extraction strategies                                                   *)
(***************************************************************************)
\* the result of a strategy: (attachments, nil) or (nil, error)
StrategyOk(att) == [err |-> FALSE, attachments |-> att]
StrategyError == [err |-> TRUE, attachments |-> <<>>]

\* f without the keys in gone
Without(f, gone) == [n \in (DOMAIN f) \ gone |-> f[n]]

\* ZUGFeRDExtractor.readExtractedFiles on a scratch directory holding written:
\* ReadDir may fail; a file that cannot be read is skipped with a warning
readExtractedFiles(written, env) ==
    IF env.fault = "readdir" THEN StrategyError
    ELSE StrategyOk(Without(written, env.unreadable))

\* ZUGFeRDExtractor.extractAttachmentsStandard and extractAttachmentsRelaxed:
\* parsed is what api.ExtractAttachmentsFile does with the container under the
\* configuration of the strategy
extractAttachmentsParsed(parsed, env) ==
    IF env.fault = "mkdirtemp" THEN StrategyError
    ELSE IF ~parsed.ok THEN StrategyError
    ELSE readExtractedFiles(parsed.files, env)

\* the random part of a name os.MkdirTemp makes
RandomStrings == {"1", "2"}

\* os.MkdirTemp("", pattern): the names it can give the new directory, the *
\* of the pattern replaced by a random string, none of them an existing one
MkdirTemp(pattern, dirs) ==
    {TrimSuffix(pattern, "*") \o r : r \in RandomStrings} \ DOMAIN dirs

\* os.RemoveAll(tempDir)
RemoveAll(dirs, tempDir) == Without(dirs, {tempDir})

\* a strategy that removes its scratch directory on the way out of
\* readExtractedFiles only, not when the parser fails
scratchAfter_NoDefer(parsed, env, tempDir, dirs) ==
    IF env.fault = "mkdirtemp" THEN dirs
    ELSE LET made == (tempDir :> <<>>) @@ dirs
         IN  IF ~parsed.ok THEN made
             ELSE RemoveAll((tempDir :> parsed.files) @@ dirs, tempDir)

\* ZUGFeRDExtractor.extractAttachmentsStandard and extractAttachmentsRelaxed,
\* the scratch directories that exist when the strategy has returned: none is
\* made when MkdirTemp fails; otherwise the deferred RemoveAll runs on the
\* return after a parser failure and on the return of readExtractedFiles
scratchAfter(parsed, env, tempDir, dirs) ==
    IF env.fault = "mkdirtemp" THEN dirs
    ELSE LET made == (tempDir :> <<>>) @@ dirs
         IN  IF ~parsed.ok THEN RemoveAll(made, tempDir)
             ELSE RemoveAll((tempDir :> parsed.files) @@ dirs, tempDir)

xmlStartPatterns ==
    << "<?xml version=\"1.0\"", "<rsm:CrossIndustryDocument", "<rsm:CrossIndustryInvoice" >>

endPatterns ==
    << "</rsm:CrossIndustryDocument>", "</rsm:CrossIndustryInvoice>",
       "</CrossIndustryDocument>", "</CrossIndustryInvoice>" >>

\* the loop of extractXMLFromPosition over endPatterns[k..]: endPos drops to
\* the end of the first occurrence of a pattern when that end is smaller
RECURSIVE EndPosLoop(_, _, _)
EndPosLoop(content, k, endPos) ==
    IF k > Len(endPatterns) THEN endPos
    ELSE LET idx == Index(content, endPatterns[k])
             candidateEnd == idx + Len(endPatterns[k])
         IN  IF idx # -1 /\ candidateEnd < endPos
             THEN EndPosLoop(content, k + 1, candidateEnd)
             ELSE EndPosLoop(content, k + 1, endPos)

\* ZUGFeRDExtractor.extractXMLFromPosition; nil is the empty blob
extractXMLFromPosition(bytes, startPos) ==
    IF startPos < 0 \/ startPos >= Len(bytes) THEN ""
    ELSE LET content == SubSeq(bytes, startPos + 1, Len(bytes))
             maxLength == Len(content)
             endPos == EndPosLoop(content, 1, maxLength)
         IN  IF endPos < maxLength THEN SubSeq(content, 1, endPos) ELSE ""

\* a guess whose fallback name has no extension
guessXMLFilename_NoExtension(bytes) ==
    LET content == ToLower(bytes)
    IN  IF Contains(content, "xrechnung") THEN "xrechnung.xml"
        ELSE IF Contains(content, "factur-x") THEN "factur-x.xml"
        ELSE IF Contains(content, "zugferd") THEN "zugferd-invoice.xml"
        ELSE "invoice"

\* ZUGFeRDExtractor.guessXMLFilename
guessXMLFilename(bytes) ==
    LET content == ToLower(bytes)
    IN  IF Contains(content, "xrechnung") THEN "xrechnung.xml"
        ELSE IF Contains(content, "factur-x") THEN "factur-x.xml"
        ELSE IF Contains(content, "zugferd")
             THEN IF Contains(content, "urn:ferd:pdfa:crossindustrydocument:invoice:1p0")
                  THEN "ZUGFeRD-invoice.xml"
                  ELSE "zugferd-invoice.xml"
        ELSE "invoice.xml"

\* the loop of extractAttachmentsManual over xmlStartPatterns[k..]
RECURSIVE ManualLoop(_, _, _)
ManualLoop(bytes, k, att) ==
    IF k > Len(xmlStartPatterns) THEN att
    ELSE LET idx == Index(bytes, xmlStartPatterns[k])
             xmlData == extractXMLFromPosition(bytes, idx)
         IN  IF idx # -1 /\ Len(xmlData) > 0 /\ isZUGFeRDXML(xmlData)
             THEN ManualLoop(bytes, k + 1, (guessXMLFilename(xmlData) :> xmlData) @@ att)
             ELSE ManualLoop(bytes, k + 1, att)

\* ZUGFeRDExtractor.extractAttachmentsManual: the file may fail to open or to
\* be read; no attachment found is an error
extractAttachmentsManual(bytes, env) ==
    IF env.fault \in {"open", "readall"} THEN StrategyError
    ELSE LET att == ManualLoop(bytes, 1, <<>>)
         IN  IF Cardinality(DOMAIN att) = 0 THEN StrategyError ELSE StrategyOk(att)

(***************************************************************************)
(* Single-document extraction: ExtractXML, one statement group at a time   *)
(***************************************************************************)
NoFault == [fault |-> "none", unreadable |-> {}]

\* what the filesystem can do to a parser-based strategy
ParsedEnvs(parsed) ==
    {[fault |-> f, unreadable |-> u] :
        f \in {"none", "mkdirtemp", "readdir"}, u \in SUBSET (DOMAIN parsed.files)}

\* what the filesystem can do to the manual strategy
ManualEnvs == {[fault |-> f, unreadable |-> {}] : f \in {"none", "open", "readall"}}

Attempt(strategy, r) ==
    [strategy |-> strategy, err |-> r.err, n |-> Cardinality(DOMAIN r.attachments)]

Fail(stage) ==
    /\ pc' = "failed"
    /\ failedStage' = stage

\* ExtractXML, method 1: on an error go on to method 2, otherwise to the
\* check of the attachment count
Standard ==
    /\ pc = "standard"
    /\ \E env \in ParsedEnvs(container.strict),
          tempDir \in MkdirTemp("zugferd_extract_*", scratch) :
          LET r == extractAttachmentsParsed(container.strict, env)
          IN  /\ tried' = Append(tried, Attempt("Standard", r))
              /\ scratch' = scratchAfter(container.strict, env, tempDir, scratch)
              /\ temps' = IF env.fault = "mkdirtemp" THEN temps ELSE Append(temps, tempDir)
              /\ IF r.err
                 THEN pc' = "relaxed" /\ UNCHANGED attachments
                 ELSE pc' = "emptycheck" /\ attachments' = r.attachments
    /\ UNCHANGED <<container, failedStage, fs, found, pathVars>>
    /\ UNCHANGED notExtract

\* ExtractXML, method 2: on an error go on to method 3
Relaxed ==
    /\ pc = "relaxed"
    /\ \E env \in ParsedEnvs(container.permissive),
          tempDir \in MkdirTemp("zugferd_extract_relaxed_*", scratch) :
          LET r == extractAttachmentsParsed(container.permissive, env)
          IN  /\ tried' = Append(tried, Attempt("Relaxed", r))
              /\ scratch' = scratchAfter(container.permissive, env, tempDir, scratch)
              /\ temps' = IF env.fault = "mkdirtemp" THEN temps ELSE Append(temps, tempDir)
              /\ IF r.err
                 THEN pc' = "manual" /\ UNCHANGED attachments
                 ELSE pc' = "emptycheck" /\ attachments' = r.attachments
    /\ UNCHANGED <<container, failedStage, fs, found, pathVars>>
    /\ UNCHANGED notExtract

\* ExtractXML, method 3: on an error ExtractXML returns the error that all
\* methods failed
Manual ==
    /\ pc = "manual"
    /\ \E env \in ManualEnvs :
          LET r == extractAttachmentsManual(container.raw, env)
          IN  /\ tried' = Append(tried, Attempt("Manual", r))
              /\ IF r.err
                 THEN Fail("attachments") /\ UNCHANGED attachments
                 ELSE pc' = "emptycheck" /\ attachments' = r.attachments /\ UNCHANGED failedStage
    /\ UNCHANGED <<container, fs, scratch, temps, found, pathVars>>
    /\ UNCHANGED notExtract

\* ExtractXML: no attachment is an error
EmptyCheck ==
    /\ pc = "emptycheck"
    /\ IF Cardinality(DOMAIN attachments) = 0
       THEN Fail("empty")
       ELSE pc' = "discovery" /\ UNCHANGED failedStage
    /\ UNCHANGED <<container, tried, fs, scratch, temps, discoveryVars, pathVars>>
    /\ UNCHANGED notExtract

\* ExtractXML: findZUGFeRDXML on the attachments
Discover ==
    /\ pc = "discovery"
    /\ \E order \in IterationOrders(attachments) :
          LET r == findZUGFeRDXML(attachments, order)
          IN  /\ found' = <<r>>
              /\ IF r.err
                 THEN Fail("discovery") /\ UNCHANGED xmlFilename
                 ELSE pc' = "write" /\ xmlFilename' = r.name /\ UNCHANGED failedStage
    /\ UNCHANGED <<container, tried, fs, scratch, temps, attachments, z, outputPath>>
    /\ UNCHANGED notExtract

\* an ExtractXML that reports success without saving the file
Write_NoSave ==
    /\ pc = "write"
    /\ outputPath' = [called |-> TRUE, path |-> generateOutputPath(z, xmlFilename)]
    /\ pc' = "done"
    /\ UNCHANGED <<container, tried, failedStage, fs, scratch, temps, discoveryVars, z, xmlFilename>>
    /\ UNCHANGED notExtract

\* ExtractXML: generateOutputPath and saveXMLToFile, which creates the
\* directory and writes the file, and either can fail
Write ==
    /\ pc = "write"
    /\ LET path == generateOutputPath(z, xmlFilename)
       IN  /\ outputPath' = [called |-> TRUE, path |-> path]
           /\ \E saved \in BOOLEAN :
                 IF saved
                 THEN /\ fs' = (path :> found[1].data) @@ fs
                      /\ pc' = "done"
                      /\ UNCHANGED failedStage
                 ELSE Fail("write") /\ UNCHANGED fs
    /\ UNCHANGED <<container, tried, scratch, temps, discoveryVars, z, xmlFilename>>
    /\ UNCHANGED notExtract

ExtractNext == Standard \/ Relaxed \/ Manual \/ EmptyCheck \/ Discover \/ Write

EmbeddedFiles ==
    { <<>>,
      ("cii.xml" :> "ZUGFeRD"),
      ("notes.txt" :> "ZUGFeRD"),
      ("report.xml" :> "urn:cen.eu:EN16931" @@ "SCAN.XML" :> "Factur-X") }

RawBytes ==
    { "%PDF-1.7 %%EOF",
      "%PDF <?xml version=\"1.0\"?><rsm:CrossIndustryInvoice>ZUGFeRD</rsm:CrossIndustryInvoice> %%EOF",
      "%PDF <rsm:CrossIndustryDocument>x</rsm:CrossIndustryDocument><rsm:CrossIndustryInvoice>XRechnung</CrossIndustryInvoice> %%EOF",
      "%PDF <rsm:CrossIndustryInvoice>x</rsm:CrossIndustryInvoice> %%EOF" }

Containers ==
    [strict : {ParseFailed} \cup {ParseOk(f) : f \in EmbeddedFiles},
     permissive : {ParseFailed} \cup {ParseOk(f) : f \in EmbeddedFiles},
     raw : RawBytes]

ExtractInit ==
    /\ container \in Containers
    /\ z \in [InputPath : {"dir/invoice.pdf"}, OutputPath : {"", "out/x.xml"}]
    /\ pc = "standard"
    /\ tried = <<>>
    /\ failedStage = ""
    /\ fs \in {<<>>, ("dir/cii.xml" :> "old")}
    /\ scratch = <<>>
    /\ temps = <<>>
    /\ attachments = <<>>
    /\ found = <<>>
    /\ xmlFilename = ""
    /\ outputPath = NotGenerated
    /\ SniffIdle
    /\ ScanIdle
    /\ BatchIdle

SpecExtract == ExtractInit /\ [][ExtractNext]_vars

StrategyOrder == << "Standard", "Relaxed", "Manual" >>

\* the attempts made so far that are Standard or Relaxed
ParsedAttempts == {k \in 1..Len(tried) : tried[k].strategy \in {"Standard", "Relaxed"}}

\* C13: once a Standard or Relaxed attempt has returned, by success, by a
\* failure of the parser or by a failure to read the extracted files back, the
\* scratch directory it made does not exist; each attempt makes at most one.
C13_ScratchRemoved ==
    /\ \A i \in 1..Len(temps) : temps[i] \notin DOMAIN scratch
    /\ Len(temps) <= Cardinality(ParsedAttempts)

\* Standard made a directory and the parser failed; Relaxed made one, the
\* parser wrote its files and they could not be read back
C13_Witness ==
    /\ Len(tried) >= 2
    /\ Len(temps) = 2
    /\ ~container.strict.ok
    /\ container.permissive.ok
    /\ container.permissive.files # <<>>
    /\ tried[2].err
    /\ scratch = <<>>

\* the statements of ExtractXML in program order, and the stage of each
PcOrder == << "standard", "relaxed", "manual", "emptycheck", "discovery", "write" >>
StageOrder == << "attachments", "empty", "discovery", "write" >>
StageOf(p) ==
    IF p \in {"standard", "relaxed", "manual"} THEN "attachments"
    ELSE IF p = "emptycheck" THEN "empty"
    ELSE p
PcRank(p) == CHOOSE k \in 1..Len(PcOrder) : PcOrder[k] = p
StageRank(st) == CHOOSE k \in 1..Len(StageOrder) : StageOrder[k] = st
Ended(p) == p \in {"done", "failed"}

\* C14: every step of ExtractXML leaves a stage that has not ended; it goes
\* forward in program order, to the same stage or the next one, so no stage is
\* entered twice or skipped; a failure ends the run in Failed(stage of the
\* step) and nothing runs after it; the output files change in no step but
\* that of the write stage, and success is reached only by that step, with
\* the discovered bytes written at the generated path.
C14_StagesInOrder ==
    [][/\ ~Ended(pc)
       /\ ~Ended(pc') =>
             /\ PcRank(pc') > PcRank(pc)
             /\ StageRank(StageOf(pc')) <= StageRank(StageOf(pc)) + 1
       /\ pc' = "failed" => failedStage' = StageOf(pc)
       /\ pc' = "done" =>
             /\ pc = "write"
             /\ outputPath'.called
             /\ outputPath'.path \in DOMAIN fs'
             /\ fs'[outputPath'.path] = found[1].data
       /\ fs' # fs => pc = "write"
       /\ failedStage' # failedStage => pc' = "failed"]_vars

\* all three strategies ran, discovery found the invoice and it was written
C14_Witness ==
    /\ pc = "done"
    /\ Len(tried) = 3
    /\ outputPath.called
    /\ outputPath.path \in DOMAIN fs
    /\ fs[outputPath.path] = found[1].data

\* C15: a run that ends with no attachment, by the error of the attachments
\* stage or by the empty check, has attempted Standard, Relaxed and Manual, each
\* of which returned an error or no attachment, and its error is that of the
\* attachments stage.
C15_ZeroAttachmentsAfterAllThree ==
    (pc = "failed" /\ failedStage \in {"attachments", "empty"}) =>
        /\ Len(tried) = Len(StrategyOrder)
        /\ \A k \in 1..Len(tried) : tried[k].n = 0
        /\ failedStage = "attachments"

\* the offsets of all occurrences of sub in s
Occurrences(s, sub) ==
    {i \in 0..(Len(s) - Len(sub)) : SubSeq(s, i + 1, i + Len(sub)) = sub}

\* the offsets of the start-marker occurrences in bytes whose slice is not
\* empty and passes the sniff
SurvivingSlices(bytes) ==
    {i \in UNION {Occurrences(bytes, xmlStartPatterns[k]) : k \in 1..Len(xmlStartPatterns)} :
        LET xmlData == extractXMLFromPosition(bytes, i)
        IN  Len(xmlData) > 0 /\ isZUGFeRDXML(xmlData)}

\* C17: the manual byte scan returns one attachment for each occurrence of a
\* start marker whose slice passes, and fails when there is none.
C17_OneAttachmentPerSurvivingSlice ==
    \A k \in 1..Len(tried) :
        tried[k].strategy = "Manual" =>
            IF SurvivingSlices(container.raw) = {} THEN tried[k].err
            ELSE /\ ~tried[k].err => tried[k].n = Cardinality(SurvivingSlices(container.raw))
                 /\ tried[k].err => pc = "failed" /\ failedStage = "attachments"

\* C1: the strategies run in the order Standard, Relaxed, Manual; none runs
\* after one that returned attachments; and a run fails only after every
\* strategy before Manual that returned no attachment, with or without an
\* error, was followed by the next strategy.
C1_EmptyResultFallsThrough ==
    /\ \A k \in 1..Len(tried) :
          /\ k <= Len(StrategyOrder)
          /\ tried[k].strategy = StrategyOrder[k]
          /\ tried[k].n > 0 => k = Len(tried)
    /\ pc = "failed" =>
          \A k \in 1..Len(tried) :
              (tried[k].n = 0 /\ tried[k].strategy # "Manual") => k < Len(tried)

\* the manual byte scan supplied the attachment set
ManualSupplied ==
    /\ Len(tried) = Len(StrategyOrder)
    /\ tried[Len(tried)].strategy = "Manual"
    /\ ~tried[Len(tried)].err

\* C21: when the manual byte scan returned without error, it returned at
\* least one attachment, each of which passes the sniff and has a known name
\* or a name ending in .xml; discovery, once it has run, has found one of
\* them; and the run does not end in Failed(empty) or Failed(discovery).
C21_ManualThenDiscoverySucceeds ==
    ManualSupplied =>
        /\ DOMAIN attachments # {}
        /\ \A n \in DOMAIN attachments :
              /\ isZUGFeRDXML(attachments[n])
              /\ n \in KnownNames \/ EndsInXmlAnyCase(n)
        /\ found # <<>> => (~found[1].err /\ found[1].name \in DOMAIN attachments)
        /\ pc \in {"done", "failed"} => found # <<>>
        /\ ~(pc = "failed" /\ failedStage \in {"empty", "discovery"})

\* the byte scan synthesized invoice.xml, which is no known name; discovery
\* found it and the file was written
C21_Witness ==
    /\ ManualSupplied
    /\ pc = "done"
    /\ DOMAIN attachments = {"invoice.xml"}
    /\ xmlFilename = "invoice.xml"
    /\ "dir/invoice.xml" \in DOMAIN fs

(***************************************************************************)
(* Byte scan: extractXMLFromPosition on data put together from closing     *)
(* tags and other bytes                                                    *)
(***************************************************************************)
MaxParts == 3

ScanParts ==
    {"a", "</rsm:CrossIndustryDocument>", "</rsm:CrossIndustryInvoice>",
     "</CrossIndustryDocument>", "</CrossIndustryInvoice>"}

\* the data made of at most n parts
RECURSIVE ScanBlobs(_)
ScanBlobs(n) ==
    IF n = 0 THEN {""}
    ELSE LET shorter == ScanBlobs(n - 1)
         IN  shorter \cup {b \o part : b \in shorter, part \in ScanParts}

ScanInit ==
    /\ scan \in {NotScanned(b) : b \in ScanBlobs(MaxParts)}
    /\ SniffIdle
    /\ DiscoveryIdle
    /\ PathIdle
    /\ ExtractIdle
    /\ BatchIdle

\* extractXMLFromPosition is called on the data with a start position, valid
\* or not
ExtractXMLFromPosition ==
    /\ ~scan.called
    /\ \E startPos \in -1..Len(scan.data) :
          scan' = [scan EXCEPT !.called = TRUE,
                               !.startPos = startPos,
                               !.out = extractXMLFromPosition(scan.data, startPos)]
    /\ UNCHANGED notScan

ScanNext == ExtractXMLFromPosition

SpecScan == ScanInit /\ [][ScanNext]_vars

\* the offsets just past the occurrences of a closing tag that lie wholly at
\* or after startPos
ClosingEnds(bytes, startPos) ==
    UNION { {i + Len(endPatterns[k]) :
                i \in {j \in startPos..(Len(bytes) - Len(endPatterns[k])) :
                          SubSeq(bytes, j + 1, j + Len(endPatterns[k])) = endPatterns[k]}}
            : k \in 1..Len(endPatterns) }

Min(S) == CHOOSE x \in S : \A y \in S : x <= y

\* C16: for a valid start position, extractXMLFromPosition returns the bytes
\* from the start through the end of the closing tag that ends first among
\* the occurrences of the four closing tags at or after the start, also when
\* that tag ends the data; it returns nothing only when there is no such
\* occurrence.
C16_SliceThroughFirstClosingTag ==
    (scan.called /\ scan.startPos >= 0 /\ scan.startPos < Len(scan.data)) =>
        LET ends == ClosingEnds(scan.data, scan.startPos)
        IN  IF ends = {} THEN scan.out = ""
            ELSE scan.out = SubSeq(scan.data, scan.startPos + 1, Min(ends))

(***************************************************************************)
(* Batch processing: ProcessBatch, its workers and the goroutine that      *)
(* closes the results channel                                              *)
(***************************************************************************)
MaxFiles == 3
MaxWorkers == 2
MaxCPU == 3

\* the outcome of one ExtractXML call: the stage of the error ("" for nil) and,
\* on success, the file written
Failure(stage) == [err |-> stage, path |-> "", data |-> ""]
Success(path, bytes) == [err |-> "", path |-> path, data |-> bytes]

\* ExtractXML as one call, the filesystem operations all succeeding: the
\* outcomes the iteration order of the attachment map allows
ExtractXMLOutcomes(e, c) ==
    LET s == extractAttachmentsParsed(c.strict, NoFault)
        r == extractAttachmentsParsed(c.permissive, NoFault)
        m == extractAttachmentsManual(c.raw, NoFault)
    IN  IF s.err /\ r.err /\ m.err THEN {Failure("attachments")}
        ELSE LET att == IF ~s.err THEN s.attachments
                        ELSE IF ~r.err THEN r.attachments
                        ELSE m.attachments
             IN  IF Cardinality(DOMAIN att) = 0 THEN {Failure("empty")}
                 ELSE { LET f == findZUGFeRDXML(att, order)
                        IN  IF f.err THEN Failure("discovery")
                            ELSE Success(generateOutputPath(e, f.name), f.data)
                        : order \in IterationOrders(att) }

NoResult == [Filename |-> "", OutputPath |-> "", Error |-> ""]

\* worker: the ProcessResult made of one ExtractXML call
workerResult(filename, err) ==
    [Filename |-> filename,
     Error |-> err,
     OutputPath |-> IF err = ""
                    THEN Join(Dir(filename),
                              TrimSuffix(Base(filename), Ext(filename)) \o ".xml")
                    ELSE ""]

\* a result loop that counts every result as successful
countResult_AllSuccessful(t, result) ==
    [t EXCEPT !.successful = @ + 1]

\* ProcessBatch, the body of the result loop
countResult(t, result) ==
    IF result.Error # ""
    THEN [t EXCEPT !.failed = @ + 1]
    ELSE [t EXCEPT !.successful = @ + 1]

\* a ProcessBatch that returns an error when a file failed
processBatchReturn_FailsOnFailure(t) ==
    IF t.failed > 0 THEN "batch failed" ELSE ""

\* ProcessBatch, the return after the result loop: nil
processBatchReturn(t) == ""

\* the files on disk that a pattern can match, and what each holds
Disk ==
    ( "in/a.pdf" :> [strict |-> ParseOk("cii.xml" :> "ZUGFeRD"),
                     permissive |-> ParseOk("cii.xml" :> "ZUGFeRD"),
                     raw |-> "%PDF-1.7 %%EOF"] )
    @@
    ( "in/b.pdf" :> [strict |-> ParseOk(<<>>),
                     permissive |-> ParseOk(<<>>),
                     raw |-> "%PDF-1.7 %%EOF"] )
    @@
    ( "in/c.txt" :> [strict |-> ParseFailed,
                     permissive |-> ParseFailed,
                     raw |-> "plain text"] )
    @@
    ( "in/d.PDF" :> [strict |-> ParseFailed,
                     permissive |-> ParseOk("cii.xml" :> "urn:cen.eu:EN16931"
                                            @@ "SCAN.XML" :> "Factur-X"),
                     raw |-> "%PDF-1.7 %%EOF"] )

\* what ExtractXML can do with each file on disk when the extractor is the
\* one the worker makes for it
DiskOutcomes ==
    [f \in DOMAIN Disk |-> ExtractXMLOutcomes([InputPath |-> f, OutputPath |-> ""], Disk[f])]

\* the ProcessResult the worker makes of each of these outcomes
DiskResults ==
    [f \in DOMAIN Disk |-> [o \in DiskOutcomes[f] |-> workerResult(f, o.err)]]

\* the names of the files on disk in lexical order, as Glob lists them
DiskNames == << "in/a.pdf", "in/b.pdf", "in/c.txt", "in/d.PDF" >>

\* the subsequence of names that a pattern matching the files in sel returns
RECURSIVE GlobMatches(_, _)
GlobMatches(names, sel) ==
    IF names = <<>> THEN <<>>
    ELSE IF Head(names) \in sel
         THEN <<Head(names)>> \o GlobMatches(Tail(names), sel)
         ELSE GlobMatches(Tail(names), sel)

\* what filepath.Glob(bp.InputPattern) returns: a bad pattern, or the matches
GlobResults ==
    {[err |-> TRUE, files |-> <<>>]}
    \cup {[err |-> FALSE, files |-> GlobMatches(DiskNames, sel)] :
             sel \in {x \in SUBSET (DOMAIN Disk) : Cardinality(x) <= MaxFiles}}

Range(q) == {q[i] : i \in 1..Len(q)}

NoHistory == [takenBy |-> <<>>, errs |-> <<>>, made |-> 0, wrote |-> <<>>]

\* the output directories a BatchProcessor is made with: none, or a directory
OutputDirs == {"", "out"}

\* a main that takes one worker per CPU
numWorkers_PerCPU(numCPU, nFiles) == numCPU

\* main: numWorkers := runtime.NumCPU(), lowered to len(files)
numWorkers(numCPU, nFiles) == IF numCPU > nFiles THEN nFiles ELSE numCPU

\* a BatchProcessor with any Workers, or the one main makes when its Glob
\* returned more than one file
BatchInit ==
    /\ cli \in {NoCLI} \cup [used : {TRUE}, numCPU : 1..MaxCPU]
    /\ bp \in [Workers : 1..Max({MaxWorkers, MaxCPU}), OutputDir : OutputDirs, glob : GlobResults]
    /\ IF cli.used
       THEN /\ ~bp.glob.err
            /\ Len(bp.glob.files) > 1
            /\ bp.Workers = numWorkers(cli.numCPU, Len(bp.glob.files))
       ELSE bp.Workers <= MaxWorkers
    /\ cpc = "glob"
    /\ spawned = 0
    /\ sent = 0
    /\ jobs = EmptyChan
    /\ results = EmptyChan
    /\ wg = 0
    /\ wk = [w \in 1..bp.Workers |-> [pc |-> "notstarted", filename |-> "", result |-> NoResult]]
    /\ closer = "none"
    /\ tally = [successful |-> 0, failed |-> 0]
    /\ batchErr = ""
    /\ hist = [f \in Range(bp.glob.files) |-> NoHistory]
    /\ fs = <<>>
    /\ SniffIdle
    /\ DiscoveryIdle
    /\ PathIdle
    /\ ScanIdle
    /\ container = NoContainer
    /\ pc = "idle"
    /\ tried = <<>>
    /\ failedStage = ""
    /\ scratch = <<>>
    /\ temps = <<>>

\* ProcessBatch: Glob, the two early returns, and the making of the channels
Glob ==
    /\ cpc = "glob"
    /\ IF bp.glob.err
       THEN cpc' = "returned" /\ batchErr' = "failed to find files"
       ELSE IF Len(bp.glob.files) = 0
       THEN cpc' = "returned" /\ batchErr' = "no PDF files found"
       ELSE cpc' = "start" /\ UNCHANGED batchErr
    /\ UNCHANGED <<bp, cli, spawned, sent, jobs, results, wg, wk, closer, tally, hist, fs>>
    /\ UNCHANGED notBatch

\* ProcessBatch, one round of the start loop: wg.Add(1); go bp.worker(...)
StartWorker ==
    /\ cpc = "start"
    /\ spawned < bp.Workers
    /\ wg' = wg + 1
    /\ wk' = [wk EXCEPT ![spawned + 1].pc = "receive"]
    /\ spawned' = spawned + 1
    /\ cpc' = IF spawned + 1 < bp.Workers THEN "start" ELSE "send"
    /\ UNCHANGED <<bp, cli, sent, jobs, results, closer, tally, batchErr, hist, fs>>
    /\ UNCHANGED notBatch

\* ProcessBatch, one round of the send loop: jobs <- file; the buffer has room
\* for every file
SendJob ==
    /\ cpc = "send"
    /\ sent < Len(bp.glob.files)
    /\ Len(jobs.buf) < Len(bp.glob.files)
    /\ jobs' = [jobs EXCEPT !.buf = Append(@, bp.glob.files[sent + 1])]
    /\ sent' = sent + 1
    /\ cpc' = IF sent + 1 < Len(bp.glob.files) THEN "send" ELSE "closejobs"
    /\ UNCHANGED <<bp, cli, spawned, results, wg, wk, closer, tally, batchErr, hist, fs>>
    /\ UNCHANGED notBatch

\* a ProcessBatch that goes on without closing the jobs channel
CloseJobs_LeftOpen ==
    /\ cpc = "closejobs"
    /\ cpc' = "gocloser"
    /\ UNCHANGED <<bp, cli, spawned, sent, jobs, results, wg, wk, closer, tally, batchErr, hist, fs>>
    /\ UNCHANGED notBatch

\* ProcessBatch: close(jobs)
CloseJobs ==
    /\ cpc = "closejobs"
    /\ jobs' = [jobs EXCEPT !.closed = TRUE]
    /\ cpc' = "gocloser"
    /\ UNCHANGED <<bp, cli, spawned, sent, results, wg, wk, closer, tally, batchErr, hist, fs>>
    /\ UNCHANGED notBatch

\* ProcessBatch: go func() { wg.Wait(); close(results) }()
GoCloser ==
    /\ cpc = "gocloser"
    /\ closer' = "waiting"
    /\ cpc' = "collect"
    /\ UNCHANGED <<bp, cli, spawned, sent, jobs, results, wg, wk, tally, batchErr, hist, fs>>
    /\ UNCHANGED notBatch

\* the closing goroutine: wg.Wait() returns when the counter is zero, then
\* close(results)
CloseResults ==
    /\ closer = "waiting"
    /\ wg = 0
    /\ results' = [results EXCEPT !.closed = TRUE]
    /\ closer' = "done"
    /\ UNCHANGED <<bp, cli, cpc, spawned, sent, jobs, wg, wk, tally, batchErr, hist, fs>>
    /\ UNCHANGED notBatch

\* ProcessBatch, one round of the result loop: a result is received and counted
CollectResult ==
    /\ cpc = "collect"
    /\ Len(results.buf) > 0
    /\ tally' = countResult(tally, Head(results.buf))
    /\ results' = [results EXCEPT !.buf = Tail(@)]
    /\ UNCHANGED <<bp, cli, cpc, spawned, sent, jobs, wg, wk, closer, batchErr, hist, fs>>
    /\ UNCHANGED notBatch

\* ProcessBatch: the result loop ends on the closed, drained channel; the
\* totals are printed and ProcessBatch returns
FinishBatch ==
    /\ cpc = "collect"
    /\ Len(results.buf) = 0
    /\ results.closed
    /\ cpc' = "returned"
    /\ batchErr' = processBatchReturn(tally)
    /\ UNCHANGED <<bp, cli, spawned, sent, jobs, results, wg, wk, closer, tally, hist, fs>>
    /\ UNCHANGED notBatch

\* worker: for filename := range jobs receives a file
WorkerReceive(w) ==
    /\ wk[w].pc = "receive"
    /\ Len(jobs.buf) > 0
    /\ LET filename == Head(jobs.buf)
       IN  /\ wk' = [wk EXCEPT ![w].pc = "extract", ![w].filename = filename]
           /\ hist' = [hist EXCEPT ![filename].takenBy = Append(@, w)]
    /\ jobs' = [jobs EXCEPT !.buf = Tail(@)]
    /\ UNCHANGED <<bp, cli, cpc, spawned, sent, results, wg, closer, tally, batchErr, fs>>
    /\ UNCHANGED notBatch

\* worker: the range ends on the closed, drained channel; the deferred
\* wg.Done() runs
WorkerExit(w) ==
    /\ wk[w].pc = "receive"
    /\ Len(jobs.buf) = 0
    /\ jobs.closed
    /\ wk' = [wk EXCEPT ![w].pc = "exited"]
    /\ wg' = wg - 1
    /\ UNCHANGED <<bp, cli, cpc, spawned, sent, jobs, results, closer, tally, batchErr, hist, fs>>
    /\ UNCHANGED notBatch

\* worker: an extractor is made for the file with InputPath and Verbose
\* alone, ExtractXML runs, and the ProcessResult is built
WorkerExtract(w) ==
    /\ wk[w].pc = "extract"
    /\ LET filename == wk[w].filename
       IN  \E o \in DiskOutcomes[filename] :
              /\ fs' = IF o.err = "" THEN (o.path :> o.data) @@ fs ELSE fs
              /\ wk' = [wk EXCEPT ![w].pc = "sendresult",
                                  ![w].result = DiskResults[filename][o]]
              /\ hist' = [hist EXCEPT ![filename].errs = Append(@, o.err),
                                      ![filename].wrote =
                                          IF o.err = "" THEN Append(@, o.path) ELSE @]
    /\ UNCHANGED <<bp, cli, cpc, spawned, sent, jobs, results, wg, closer, tally, batchErr>>
    /\ UNCHANGED notBatch

\* worker: results <- result; the buffer has room for one result per file
WorkerSend(w) ==
    /\ wk[w].pc = "sendresult"
    /\ Len(results.buf) < Len(bp.glob.files)
    /\ results' = [results EXCEPT !.buf = Append(@, wk[w].result)]
    /\ wk' = [wk EXCEPT ![w].pc = "receive", ![w].filename = "", ![w].result = NoResult]
    /\ hist' = [hist EXCEPT ![wk[w].filename].made = @ + 1]
    /\ UNCHANGED <<bp, cli, cpc, spawned, sent, jobs, wg, closer, tally, batchErr, fs>>
    /\ UNCHANGED notBatch

Worker ==
    \E w \in DOMAIN wk :
        WorkerReceive(w) \/ WorkerExit(w) \/ WorkerExtract(w) \/ WorkerSend(w)

BatchNext ==
    \/ Glob
    \/ StartWorker
    \/ SendJob
    \/ CloseJobs
    \/ GoCloser
    \/ CloseResults
    \/ CollectResult
    \/ FinishBatch
    \/ Worker

SpecBatch == BatchInit /\ [][BatchNext]_vars

\* the steps of the goroutine that runs ProcessBatch
Coordinator ==
    Glob \/ StartWorker \/ SendJob \/ CloseJobs \/ GoCloser \/ CollectResult \/ FinishBatch

\* the steps of worker w, if ProcessBatch has such a worker
WorkerStep(w) ==
    /\ w \in DOMAIN wk
    /\ (WorkerReceive(w) \/ WorkerExit(w) \/ WorkerExtract(w) \/ WorkerSend(w))

\* the Go scheduler runs every goroutine that can take a step: ProcessBatch,
\* the goroutine that closes results, and each worker, whose ExtractXML call
\* returns
BatchFairness ==
    /\ WF_vars(Coordinator)
    /\ WF_vars(CloseResults)
    /\ \A w \in 1..Max({MaxWorkers, MaxCPU}) : WF_vars(WorkerStep(w))

\* ProcessBatch called on a BatchProcessor that main did not make and that has
\* no OutputDir; neither is read by ProcessBatch or its workers
BatchFairInit ==
    /\ BatchInit
    /\ cli = NoCLI
    /\ bp.OutputDir = ""

SpecBatchFair == BatchFairInit /\ [][BatchNext]_vars /\ BatchFairness

\* the number of files Glob returned
NumFiles == Len(bp.glob.files)

\* ProcessBatch returned from the end of the result loop
BatchRan == cpc = "returned" /\ ~bp.glob.err /\ NumFiles >= 1

\* name has the extension .pdf, in any letter case
IsPdf(name) == ToLower(Ext(name)) = ".pdf"

C9_JoinThenDrain ==
    [][tally' # tally =>
          /\ results.closed
          /\ \A w \in DOMAIN wk : wk[w].pc = "exited"]_vars

C12_DistinctOutputs ==
    /\ \A f, g \in DOMAIN hist :
          f # g => Range(hist[f].wrote) \cap Range(hist[g].wrote) = {}
    /\ BatchRan =>
          Cardinality(DOMAIN fs) = Cardinality({f \in DOMAIN hist : hist[f].errs = <<"">>})

\* the files whose extraction is in progress: received by a worker, ExtractXML
\* not yet returned
InProgress == {f \in DOMAIN hist : Len(hist[f].takenBy) > Len(hist[f].errs)}

\* the files worker w has received and not yet sent the result of
HeldBy(w) ==
    {f \in DOMAIN hist :
        /\ Len(hist[f].takenBy) > hist[f].made
        /\ hist[f].takenBy[Len(hist[f].takenBy)] = w}

C20_ReportedPathIsWrittenPath ==
    /\ \A w \in DOMAIN wk :
          (wk[w].pc = "sendresult" /\ wk[w].result.Error = "") =>
              /\ <<wk[w].result.OutputPath>> = hist[wk[w].filename].wrote
              /\ wk[w].result.OutputPath \in DOMAIN fs
    /\ \A i \in 1..Len(results.buf) :
          results.buf[i].Error = "" =>
              <<results.buf[i].OutputPath>> = hist[results.buf[i].Filename].wrote
====
